---- MODULE Spec2Model ----
(***************************************************************************)
(* State-machine model of kilo.c: a terminal is put into raw mode, bytes   *)
(* are read one at a time with a 1/10 s timeout, one diagnostic line is    *)
(* printed per loop iteration, and the terminal attributes are restored by *)
(* an atexit handler.                                                      *)
(*                                                                         *)
(* A struct termios is a record of four flag words (each a set of flag     *)
(* names, so that `x &= ~m' is x \ m and `x |= m' is x \cup m) and the two *)
(* control characters c_cc[VMIN], c_cc[VTIME].  A line of output is the    *)
(* sequence of the character codes printf writes.                          *)
(***************************************************************************)
EXTENDS Integers, Sequences, FiniteSets, TLC

(* ------------------------------ bounds --------------------------------- *)

\* Number of read() calls explored in one run.
MaxReads == 3

(* --------------------------- termios words ------------------------------ *)

\* c_iflag bits cleared at kilo.c:48, plus one bit the program never touches.
RawIFlags == {"BRKINT", "ICRNL", "INPCK", "ISTRIP", "IXON"}
IFlags == RawIFlags \cup {"IGNBRK"}

\* c_oflag bit cleared at kilo.c:59, plus one untouched bit.
RawOFlags == {"OPOST"}
OFlags == RawOFlags \cup {"ONLCR"}

\* CS8 is a two-bit mask (the whole CSIZE field), kilo.c:64-66.
CS8 == {"CSIZE_LO", "CSIZE_HI"}
CFlags == CS8 \cup {"CREAD"}

\* c_lflag bits cleared at kilo.c:68, plus one untouched bit.
RawLFlags == {"ECHO", "ICANON", "IEXTEN", "ISIG"}
LFlags == RawLFlags \cup {"ECHOE"}

\* The value of a struct termios with static storage before any write.
\* The special characters of c_cc other than VMIN and VTIME; 0 means the
\* character is disabled.  NoCc is an all-zero c_cc, DefaultCc the values a
\* terminal starts with (the control characters of kilo.c:49-81: Ctrl-S and
\* Ctrl-Q, Ctrl-C, Ctrl-Z, Ctrl-V, and the line-editing ones of kilo.c:26-28).
NoCc ==
  [intr |-> 0, quit |-> 0, erase |-> 0, kill |-> 0, eof |-> 0, start |-> 0,
   stop |-> 0, susp |-> 0, reprint |-> 0, werase |-> 0, lnext |-> 0]
DefaultCc ==
  [intr |-> 3, quit |-> 28, erase |-> 127, kill |-> 21, eof |-> 4, start |-> 17,
   stop |-> 19, susp |-> 26, reprint |-> 18, werase |-> 23, lnext |-> 22]

ZeroTermios ==
  [iflag |-> {}, oflag |-> {}, cflag |-> {}, lflag |-> {}, vmin |-> 0, vtime |-> 0,
   cc |-> NoCc]

\* Variant of MakeRaw: the local flag word is cleared as a whole instead of
\* having the four bits masked out.
MakeRawClearsLocal(t) ==
  [iflag |-> t.iflag \ {"BRKINT", "ICRNL", "INPCK", "ISTRIP", "IXON"},
   oflag |-> t.oflag \ {"OPOST"},
   cflag |-> t.cflag \cup {"CSIZE_LO", "CSIZE_HI"},
   lflag |-> {},
   vmin  |-> 0,
   vtime |-> 1,
   cc    |-> t.cc]

\* kilo.c:44-84: raw = orig_termios, then the flag and c_cc updates.
MakeRaw(t) ==
  [iflag |-> t.iflag \ RawIFlags,
   oflag |-> t.oflag \ RawOFlags,
   cflag |-> t.cflag \cup CS8,
   lflag |-> t.lflag \ RawLFlags,
   vmin  |-> 0,
   vtime |-> 1,
   cc    |-> t.cc]

\* Variant of RestoreAttrs: the handler writes the raw attributes back.
RestoreAttrsRaw(orig) == MakeRaw(orig)

\* The attributes disableRawMode hands to tcsetattr (kilo.c:31).
RestoreAttrs(orig) == orig

\* Device configurations the terminal may have when the program starts.
Cooked ==
  [iflag |-> {"BRKINT", "ICRNL", "IXON"}, oflag |-> {"OPOST", "ONLCR"},
   cflag |-> {"CSIZE_LO", "CSIZE_HI", "CREAD"},
   lflag |-> {"ECHO", "ICANON", "IEXTEN", "ISIG", "ECHOE"},
   vmin |-> 1, vtime |-> 0, cc |-> DefaultCc]
SevenBit ==
  [iflag |-> {"INPCK", "ISTRIP", "ICRNL", "IGNBRK"}, oflag |-> {"OPOST"},
   cflag |-> {"CSIZE_HI", "CREAD"},
   lflag |-> {"ICANON", "ISIG"},
   vmin |-> 1, vtime |-> 0, cc |-> DefaultCc]
AllSet ==
  [iflag |-> IFlags, oflag |-> OFlags, cflag |-> CFlags, lflag |-> LFlags,
   vmin |-> 1, vtime |-> 1, cc |-> DefaultCc]
InitialConfigs == {Cooked, SevenBit, AllSet, MakeRaw(Cooked), ZeroTermios}

(* ----------------------------- characters ------------------------------- *)

Bytes == 0..255

\* The value of `char c' after read() stored byte b in it: a signed char
\* holds b - 256 for b >= 128, an unsigned char holds b.
CharOf(b, signed) == IF signed /\ b >= 128 THEN b - 256 ELSE b

\* The byte a char value is written as by %c (conversion to unsigned char).
ByteOf(ch) == IF ch < 0 THEN ch + 256 ELSE ch

\* The input features kilo.c:48-82 describes and turns off, in the order the
\* tty applies them to a byte typed on the line.  A disabled special
\* character (0) matches no byte, and byte 0 is never special.

\* ISTRIP clears the 8th bit.
Strip(t, b) == IF "ISTRIP" \in t.iflag THEN b % 128 ELSE b

\* ICRNL turns carriage return into newline.
CrToNl(t, s) == IF "ICRNL" \in t.iflag /\ s = 13 THEN 10 ELSE s

\* What the tty takes the (stripped) byte s for:
\*   with IXON the start and stop characters (Ctrl-Q, Ctrl-S) are kept;
\*   with ISIG the interrupt, quit and suspend characters become signals;
\*   then carriage return is translated, and with ICANON the result is, in
\*   this order, an erase or kill character (word-erase with IEXTEN), the
\*   literal-next character (Ctrl-V, with IEXTEN), the reprint character
\*   (with IEXTEN and ECHO), a newline, or the end-of-file character;
\*   anything else is data.
Role(t, s) ==
  LET x == CrToNl(t, s)
  IN  IF s = 0 THEN "data"
      ELSE IF "IXON" \in t.iflag /\ s \in {t.cc.start, t.cc.stop} THEN "flow"
      ELSE IF "ISIG" \in t.lflag /\ s \in {t.cc.intr, t.cc.quit, t.cc.susp}
        THEN "signal"
      ELSE IF "ICANON" \notin t.lflag THEN "data"
      ELSE IF x \in {t.cc.erase, t.cc.kill}
              \/ ("IEXTEN" \in t.lflag /\ x = t.cc.werase) THEN "erase"
      ELSE IF "IEXTEN" \in t.lflag /\ x = t.cc.lnext THEN "lnext"
      ELSE IF "IEXTEN" \in t.lflag /\ "ECHO" \in t.lflag /\ x = t.cc.reprint
        THEN "reprint"
      ELSE IF x = 10 THEN "data"
      ELSE IF x = t.cc.eof THEN "eof"
      ELSE "data"

\* Some byte typed on the line is taken as literal-next, so that the byte
\* after it is handed over as it is.
CanQuote(t) == \E b \in Bytes : Role(t, Strip(t, b)) = "lnext"

\* What the tty hands to read() for a byte b typed on the line, as the set of
\* bytes read() can get for it (empty when the tty keeps the byte to itself);
\* quoted says that b was typed right after the literal-next character.
Deliver(t, b, quoted) ==
  LET s == Strip(t, b)
  IN  IF quoted /\ CanQuote(t) THEN {s}
      ELSE IF Role(t, s) = "data" THEN {CrToNl(t, s)}
      ELSE {}

\* iscntrl(c) in the "C" locale (kilo.c:104).  The argument must be EOF or
\* representable as unsigned char; for any other (negative) value the call
\* is undefined and either answer may come back.
IscntrlOutcomes(ch) ==
  IF ch >= 0 THEN {ch < 32 \/ ch = 127}
  ELSE IF ch = 0 - 1 THEN {FALSE}
  ELSE BOOLEAN

\* printf's %d conversion: the decimal digits of n, with a leading '-'.
RECURSIVE Digits(_)
Digits(n) == IF n < 10 THEN <<48 + n>> ELSE Digits(n \div 10) \o <<48 + (n % 10)>>
ToDecimal(n) == IF n < 0 THEN <<45>> \o Digits(0 - n) ELSE Digits(n)

\* printf("%d\r\n", c), kilo.c:107.
FmtCntrl(ch) == ToDecimal(ch) \o <<13, 10>>
\* printf("%d ('%c')\r\n", c, c), kilo.c:109.
FmtPrint(ch) == ToDecimal(ch) \o <<32, 40, 39, ByteOf(ch), 39, 41, 13, 10>>

\* Variants of IsQuit: either case of the letter stops the loop; only the
\* upper-case letter does.
IsQuitAnyCase(ch) == ch = 113 \/ ch = 81
IsQuitUpper(ch) == ch = 81

\* c == 'q', kilo.c:111.
IsQuit(ch) == ch = 113

(* ------------------------------- state ---------------------------------- *)

VARIABLES
  pc,            \* position of the process
  dev,           \* live attributes of the terminal device
  dev0,          \* attributes of the device when the program started
  orig_termios,  \* the global struct termios, kilo.c:13
  handlers,      \* functions registered with atexit, in order
  charSigned,    \* whether plain char is signed in this build
  c,             \* the loop's char c
  lastRead,      \* outcome of this iteration's read(): none, byte, nodata, eagain, fatal
  lastByte,      \* the byte this iteration's read() delivered, when lastRead = "byte"
  lastLine,      \* the line the current loop iteration wrote to stdout, <<>> if none yet
  nLines,        \* number of lines printf was called for
  nReads,        \* number of read() calls made
  nBytes,        \* number of bytes received by read()
  nTimeouts,     \* number of read() calls that returned 0 (timeout, no byte)
  seenQ,         \* whether some read() delivered byte 0x71
  rawApply,      \* outcome of tcsetattr(&raw): none, ok, failed
  restore,       \* outcome of the tcsetattr in disableRawMode: none, ok, failed
  nRestores,     \* number of times disableRawMode ran
  diag,          \* contexts passed to perror, in order (pc = "perror": the last
                 \* one is being written)
  exitCalls,     \* number of calls of exit()
  exitPath,      \* what ended the run: none, normal, tcsgetattr, read, signal
  status         \* argument of the exit() in progress; exit status once pc = "done"
                 \* (a process ended by a signal, pc = "killed", has none)

vars == <<pc, dev, dev0, orig_termios, handlers, charSigned, c, lastRead,
          lastByte, lastLine, nLines, nReads, nBytes, nTimeouts, seenQ, rawApply,
          restore, nRestores, diag, exitCalls, exitPath, status>>

Init ==
  /\ pc = "getattr"
  /\ dev \in InitialConfigs
  /\ dev0 = dev
  /\ orig_termios = ZeroTermios
  /\ handlers = <<>>
  /\ charSigned \in BOOLEAN
  /\ c = 0
  /\ lastRead = "none"
  /\ lastByte = 0
  /\ lastLine = <<>>
  /\ nLines = 0
  /\ nReads = 0
  /\ nBytes = 0
  /\ nTimeouts = 0
  /\ seenQ = FALSE
  /\ rawApply = "none"
  /\ restore = "none"
  /\ nRestores = 0
  /\ diag = <<>>
  /\ exitCalls = 0
  /\ exitPath = "none"
  /\ status = 0

(* --------------------------- exit and die ------------------------------- *)

\* exit(s) called from main or from a function main called: the registered
\* handlers run next, then exit goes on to flush stdout and end the process.
exit(s) ==
  /\ exitCalls' = exitCalls + 1
  /\ status' = s
  /\ pc' = IF handlers # <<>> THEN "atexit" ELSE "flush"

\* exit(1) called from inside the atexit handler: exit() is called a second
\* time, which is undefined; exit goes on and the process will end with the
\* status of either call.
exitInHandler ==
  /\ exitCalls' = exitCalls + 1
  /\ status' \in {status, 1}
  /\ pc' = "flush"

\* die(s) is called, kilo.c:17-18: s is passed to perror, which writes the
\* message to stderr (and waits as long as stderr does not take it); the
\* exit(1) of kilo.c:19 is the step die_exit.
die(s) ==
  /\ diag' = Append(diag, s)
  /\ pc' = "perror"
  /\ UNCHANGED <<exitCalls, status>>

(* ------------------------------ actions --------------------------------- *)

\* Variant of enableRawMode_tcgetattr: disableRawMode is registered before the
\* result of tcgetattr is looked at, so it also runs after a failed query.
enableRawMode_tcgetattrRegistersFirst ==
  /\ pc = "getattr"
  /\ handlers' = Append(handlers, "disableRawMode")
  /\ \E ok \in BOOLEAN :
       IF ok
       THEN /\ orig_termios' = dev
            /\ pc' = "setraw"
            /\ UNCHANGED <<diag, exitCalls, status, exitPath>>
       ELSE /\ die("tcsgetattr")
            /\ exitPath' = "tcsgetattr"
            /\ UNCHANGED orig_termios
  /\ UNCHANGED <<dev, dev0, charSigned, c, lastRead, lastByte,
                 lastLine, nLines, nReads, nBytes, nTimeouts, seenQ, rawApply,
                 restore, nRestores>>

\* kilo.c:39: tcgetattr(STDIN_FILENO, &orig_termios), die on failure.
enableRawMode_tcgetattr ==
  /\ pc = "getattr"
  /\ \E ok \in BOOLEAN :
       IF ok
       THEN /\ orig_termios' = dev
            /\ pc' = "register"
            /\ UNCHANGED <<diag, exitCalls, status, exitPath>>
       ELSE /\ die("tcsgetattr")
            /\ exitPath' = "tcsgetattr"
            /\ UNCHANGED orig_termios
  /\ UNCHANGED <<dev, dev0, handlers, charSigned, c, lastRead, lastByte,
                 lastLine, nLines, nReads, nBytes, nTimeouts, seenQ, rawApply, restore,
                 nRestores>>

\* Variant of enableRawMode_atexit: the registration is left out here (it is
\* made only after the raw attributes have been applied).
enableRawMode_atexitLate ==
  /\ pc = "register"
  /\ pc' = "setraw"
  /\ UNCHANGED <<dev, dev0, orig_termios, handlers, charSigned, c, lastRead,
                 lastByte, lastLine, nLines, nReads, nBytes, nTimeouts, seenQ,
                 rawApply, restore, nRestores, diag, exitCalls, exitPath, status>>

\* kilo.c:41: atexit(disableRawMode).
enableRawMode_atexit ==
  /\ pc = "register"
  /\ handlers' = Append(handlers, "disableRawMode")
  /\ pc' = "setraw"
  /\ UNCHANGED <<dev, dev0, orig_termios, charSigned, c, lastRead, lastByte,
                 lastLine, nLines, nReads, nBytes, nTimeouts, seenQ, rawApply, restore,
                 nRestores, diag, exitCalls, exitPath, status>>

\* Variant of enableRawMode_tcsetattr: raw aliases orig_termios, so the flag
\* updates are made to the saved attributes themselves.
enableRawMode_tcsetattrAlias ==
  /\ pc = "setraw"
  /\ orig_termios' = MakeRaw(orig_termios)
  /\ \E ok \in BOOLEAN :
       /\ dev' = IF ok THEN MakeRaw(orig_termios) ELSE dev
       /\ rawApply' = IF ok THEN "ok" ELSE "failed"
  /\ pc' = "read"
  /\ UNCHANGED <<dev0, handlers, charSigned, c, lastRead,
                 lastByte, lastLine, nLines, nReads, nBytes, nTimeouts, seenQ,
                 restore, nRestores, diag, exitCalls, exitPath, status>>

\* kilo.c:44-90: derive raw and tcsetattr(STDIN_FILENO, TCSAFLUSH, &raw);
\* the return value is not looked at, and main goes on to the loop.
enableRawMode_tcsetattr ==
  /\ pc = "setraw"
  /\ \E ok \in BOOLEAN :
       /\ dev' = IF ok THEN MakeRaw(orig_termios) ELSE dev
       /\ rawApply' = IF ok THEN "ok" ELSE "failed"
  /\ pc' = "read"
  /\ UNCHANGED <<dev0, orig_termios, handlers, charSigned, c, lastRead,
                 lastByte, lastLine, nLines, nReads, nBytes, nTimeouts, seenQ, restore,
                 nRestores, diag, exitCalls, exitPath, status>>

\* kilo.c:100: read one byte into c (which is '\0' from kilo.c:99); die unless
\* the failure is EAGAIN.
main_read ==
  /\ pc = "read"
  /\ nReads < MaxReads
  /\ nReads' = nReads + 1
  /\ \/ \E b \in Bytes, quoted \in BOOLEAN :       \* read() returned 1
        \E d \in Deliver(dev, b, quoted) :
          /\ lastRead' = "byte"
          /\ lastByte' = d
          /\ c' = CharOf(d, charSigned)
          /\ nBytes' = nBytes + 1
          /\ seenQ' = (seenQ \/ d = 113)
          /\ pc' = "print"
          /\ UNCHANGED <<nTimeouts, diag, exitCalls, status, exitPath>>
     \/ /\ lastRead' = "nodata"                   \* read() returned 0
        /\ nTimeouts' = nTimeouts + 1
        /\ pc' = "print"
        /\ UNCHANGED <<c, lastByte, nBytes, seenQ, diag, exitCalls, status, exitPath>>
     \/ /\ lastRead' = "eagain"                   \* returned -1, errno = EAGAIN
        /\ pc' = "print"
        /\ UNCHANGED <<c, lastByte, nBytes, nTimeouts, seenQ, diag, exitCalls,
                       status, exitPath>>
     \/ /\ lastRead' = "fatal"                    \* returned -1, other errno
        /\ die("read")
        /\ exitPath' = "read"
        /\ UNCHANGED <<c, lastByte, nBytes, nTimeouts, seenQ>>
  /\ UNCHANGED <<dev, dev0, orig_termios, handlers, charSigned, lastLine,
                 nLines, rawApply, restore, nRestores>>

\* kilo.c:104-110: print the line for c.
main_print ==
  /\ pc = "print"
  /\ \E isc \in IscntrlOutcomes(c) :
       lastLine' = IF isc THEN FmtCntrl(c) ELSE FmtPrint(c)
  /\ nLines' = nLines + 1
  /\ pc' = "check"
  /\ UNCHANGED <<dev, dev0, orig_termios, handlers, charSigned, c, lastRead,
                 lastByte, nReads, nBytes, nTimeouts, seenQ, rawApply, restore, nRestores,
                 diag, exitCalls, exitPath, status>>

\* kilo.c:111 and 98-99: if (c == 'q') break; otherwise this iteration's c
\* goes out of scope and the next iteration starts with char c = '\0'.
main_check ==
  /\ pc = "check"
  /\ IF IsQuit(c)
     THEN /\ pc' = "return"
          /\ UNCHANGED <<c, lastRead, lastByte, lastLine>>
     ELSE /\ pc' = "read"
          /\ c' = 0
          /\ lastRead' = "none"
          /\ lastByte' = 0
          /\ lastLine' = <<>>
  /\ UNCHANGED <<dev, dev0, orig_termios, handlers, charSigned, nLines,
                 nReads, nBytes, nTimeouts, seenQ, rawApply, restore, nRestores, diag,
                 exitCalls, exitPath, status>>

\* Variant of main_return: main calls disableRawMode itself before returning,
\* on top of the atexit registration.
main_returnExplicitDisable ==
  /\ pc = "return"
  /\ dev' = RestoreAttrs(orig_termios)
  /\ restore' = "ok"
  /\ nRestores' = nRestores + 1
  /\ exit(0)
  /\ exitPath' = "normal"
  /\ UNCHANGED <<dev0, orig_termios, handlers, charSigned, c, lastRead,
                 lastByte, lastLine, nLines, nReads, nBytes, nTimeouts, seenQ,
                 rawApply, diag>>

\* Variant of main_return: the process ends without running the handlers
\* (as _exit(0) would).
main_returnNoHandlers ==
  /\ pc = "return"
  /\ exitCalls' = exitCalls + 1
  /\ status' = 0
  /\ pc' = "done"
  /\ exitPath' = "normal"
  /\ UNCHANGED <<dev, dev0, orig_termios, handlers, charSigned, c, lastRead,
                 lastByte, lastLine, nLines, nReads, nBytes, nTimeouts, seenQ,
                 rawApply, restore, nRestores, diag>>

\* kilo.c:113: return 0 from main, i.e. exit(0).
main_return ==
  /\ pc = "return"
  /\ exit(0)
  /\ exitPath' = "normal"
  /\ UNCHANGED <<dev, dev0, orig_termios, handlers, charSigned, c, lastRead,
                 lastByte, lastLine, nLines, nReads, nBytes, nTimeouts, seenQ, rawApply,
                 restore, nRestores, diag>>

\* kilo.c:30-32: disableRawMode, run by exit() as the registered handler; it
\* returns into exit(), which has the rest of its work to do.
disableRawMode ==
  /\ pc = "atexit"
  /\ nRestores' = nRestores + 1
  /\ \E ok \in BOOLEAN :
       IF ok
       THEN /\ dev' = RestoreAttrs(orig_termios)
            /\ restore' = "ok"
            /\ pc' = "flush"
            /\ UNCHANGED <<diag, exitCalls, status>>
       ELSE /\ restore' = "failed"
            /\ die("tcsetattr")
            /\ UNCHANGED dev
  /\ UNCHANGED <<dev0, orig_termios, handlers, charSigned, c, lastRead,
                 lastByte, lastLine, nLines, nReads, nBytes, nTimeouts, seenQ, rawApply,
                 exitPath>>

\* kilo.c:19: perror has returned and die calls exit(1), from main's side or,
\* when die was called by disableRawMode, from inside the handler.
die_exit ==
  /\ pc = "perror"
  /\ IF nRestores = 0 THEN exit(1) ELSE exitInHandler
  /\ UNCHANGED <<dev, dev0, orig_termios, handlers, charSigned, c, lastRead,
                 lastByte, lastLine, nLines, nReads, nBytes, nTimeouts, seenQ,
                 rawApply, restore, nRestores, diag, exitPath>>

\* kilo.c:19 and 113: the rest of exit() after the handlers: the buffered
\* output is flushed (which can wait as long as stdout does not take it) and
\* the process ends with the status.
exit_finish ==
  /\ pc = "flush"
  /\ pc' = "done"
  /\ UNCHANGED <<dev, dev0, orig_termios, handlers, charSigned, c, lastRead,
                 lastByte, lastLine, nLines, nReads, nBytes, nTimeouts, seenQ,
                 rawApply, restore, nRestores, diag, exitCalls, exitPath, status>>

\* The process is ended by a signal, at any point before it is gone: exit()
\* does not run, and what exit() had not yet done stays undone (kilo.c:41
\* registers the restoration with atexit only).
Signal ==
  /\ pc \notin {"done", "killed"}
  /\ pc' = "killed"
  /\ exitPath' = IF exitPath = "none" THEN "signal" ELSE exitPath
  /\ UNCHANGED <<dev, dev0, orig_termios, handlers, charSigned, c, lastRead,
                 lastByte, lastLine, nLines, nReads, nBytes, nTimeouts, seenQ, rawApply,
                 restore, nRestores, diag, exitCalls, status>>

Next ==
  \/ enableRawMode_tcgetattr
  \/ enableRawMode_atexit
  \/ enableRawMode_tcsetattr
  \/ main_read
  \/ main_print
  \/ main_check
  \/ main_return
  \/ disableRawMode
  \/ die_exit
  \/ exit_finish

Spec == Init /\ [][Next]_vars

\* The same program in an environment that may deliver a fatal signal.
NextSig == Next \/ Signal
SpecSig == Init /\ [][NextSig]_vars

(* ------------------------------ properties ------------------------------ *)

\* The baseline was captured: tcgetattr at kilo.c:39 has run and succeeded.
Captured == pc # "getattr" /\ exitPath # "tcsgetattr"

\* The process has exited through exit() (return from main, or die).
Exited == pc = "done"

\* The read loop has been entered.
LoopEntered == rawApply # "none"

\* The line "113 ('q')\r\n".
LineQ == <<49, 49, 51, 32, 40, 39, 113, 39, 41, 13, 10>>

\* The line the specification gives for an ASCII byte b: "<decimal>\r\n" for
\* a control byte, "<decimal> ('<char>')\r\n" for a printable one.
SpecLine(b) ==
  IF b >= 32 /\ b <= 126
  THEN ToDecimal(b) \o <<32, 40, 39, b, 39, 41, 13, 10>>
  ELSE ToDecimal(b) \o <<13, 10>>

\* C1 as stated: whenever a baseline was captured, on each of the exit paths
\* (normal stop on 'q', fatal configuration error, fatal read error) the
\* device configuration after exit equals the captured baseline.
C1_Original ==
  (Exited /\ Captured /\ exitPath \in {"normal", "read"}) => dev = orig_termios

\* C1 amended: after exit with a captured baseline the device configuration
\* equals the baseline provided the restoring tcsetattr succeeded; when it
\* failed the device keeps what it had: the raw attributes if they had been
\* applied, the baseline otherwise.
C1_RestoredWhenApplySucceeds ==
  (Exited /\ Captured) =>
     /\ nRestores = 1
     /\ restore = "ok" => dev = orig_termios
     /\ restore = "failed" =>
          dev = IF rawApply = "ok" THEN MakeRaw(orig_termios) ELSE orig_termios

C1_Witness ==
  /\ Exited /\ Captured /\ exitPath = "normal"
  /\ rawApply = "ok" /\ restore = "ok"
  /\ MakeRaw(orig_termios) # orig_termios
  /\ dev = orig_termios

\* C2 as stated: the registered restoration runs on every way the process
\* can end, a termination by signal included, so the device is never left
\* altered once the process is gone.
C2_Original ==
  (pc \in {"done", "killed"} /\ handlers # <<>>) => nRestores >= 1

\* C2 amended: the registered restoration runs exactly once in every run
\* that ends through exit() (return from main after 'q', die); it runs only
\* inside exit(), so when a signal ends the process before exit() has run
\* the handler, the restoration has not run and the device keeps the raw
\* attributes if they had been applied.
C2_FiresOnExitOnly ==
  /\ (pc = "done" /\ handlers # <<>>) => nRestores = 1
  /\ nRestores <= 1
  /\ nRestores = 1 =>
       (exitCalls >= 1 /\ pc \in {"perror", "flush", "done", "killed"})
  /\ (pc = "killed" /\ exitCalls = 0) => nRestores = 0
  /\ (pc = "killed" /\ nRestores = 0) =>
       dev = IF rawApply = "ok" THEN MakeRaw(orig_termios) ELSE dev0

C2_Witness ==
  /\ pc = "done" /\ handlers # <<>> /\ exitPath = "normal"
  /\ nRestores = 1 /\ rawApply = "ok" /\ dev0 # MakeRaw(dev0)

\* C3: when the tcsetattr of enableRawMode and the tcsetattr of
\* disableRawMode both succeed, the device configuration after the second
\* equals the configuration the device had before enableRawMode.
C3_RoundTrip ==
  (Exited /\ rawApply = "ok" /\ restore = "ok") => dev = dev0

C3_Witness ==
  /\ Exited /\ rawApply = "ok" /\ restore = "ok"
  /\ MakeRaw(dev0) # dev0
  /\ exitPath = "read"

\* C4 as stated: while every read so far timed out with no byte, nothing has
\* been written to the output and the loop has not ended.
C4_Claim ==
  (LoopEntered /\ nReads > 0 /\ nTimeouts = nReads) =>
     /\ nLines = 0
     /\ pc \in {"read", "print", "check"}

\* C5: as long as no byte 0x71 has been read, the loop has not stopped for a
\* byte's sake: control is never past the break, and if the process is
\* exiting or has exited it is because of a fatal read error.
C5_NoStopWithoutQ ==
  (LoopEntered /\ ~seenQ) =>
     /\ pc # "return"
     /\ exitPath \in {"none", "read"}
     /\ pc \in {"perror", "atexit", "flush", "done"} =>
          (exitPath = "read" /\ lastRead = "fatal")

C5_Witness ==
  /\ ~seenQ /\ nBytes >= 2 /\ Exited /\ exitPath = "read"

\* C6: once byte 0x71 has been read and its line printed, that line is
\* "113 ('q')\r\n", the loop is left, and from then on no read is made and no
\* line is written.
C6_QuitAfterLine ==
  /\ [](seenQ =>
          /\ lastRead = "byte" /\ lastByte = 113
          /\ pc \in {"print", "check", "return", "atexit", "perror", "flush",
                    "done"}
          /\ pc # "print" => lastLine = LineQ)
  /\ [][(seenQ /\ pc # "print") => (nReads' = nReads /\ nLines' = nLines)]_vars

C6_Witness ==
  /\ seenQ /\ Exited /\ exitPath = "normal" /\ lastLine = LineQ /\ nBytes >= 2

\* C7 as stated: the output holds exactly one line per byte received, and
\* the line for an ASCII byte has the form the specification gives for it.
C7_Claim ==
  /\ pc \in {"read", "check", "return"} => nLines = nBytes
  /\ (pc = "check" /\ lastRead = "byte" /\ lastByte < 128) =>
        lastLine = SpecLine(lastByte)

\* Some configuration or read error has occurred in the run.
ErrorOccurred ==
  \/ exitPath \in {"tcsgetattr", "read"}
  \/ rawApply = "failed"
  \/ restore = "failed"

\* C8 as stated: the exit status is 0 exactly when the run ended normally on
\* 'q', and 1 whenever an attribute query, an attribute apply or a read
\* failed fatally.
C8_Claim ==
  Exited =>
     /\ status \in {0, 1}
     /\ status = 0 <=> (exitPath = "normal" /\ ~ErrorOccurred)
     /\ ErrorOccurred => status = 1

\* C9 as stated: after a failed apply of the raw attributes the failure is
\* reported through die and the process ends; the read loop is not entered.
C9_Claim ==
  rawApply = "failed" =>
     /\ pc \in {"perror", "atexit", "flush", "done"}
     /\ nReads = 0
     /\ diag # <<>>

\* C10 as stated: a read that fails with EAGAIN is never reported through
\* die, ends nothing and writes no line; any other read failure is reported
\* through die("read") and ends the process with status 1.
C10_Claim ==
  /\ lastRead = "eagain" =>
        /\ pc \in {"print", "check"}
        /\ diag = <<>> /\ exitCalls = 0
        /\ lastLine = <<>>
  /\ lastRead = "fatal" =>
        /\ pc \in {"perror", "atexit", "flush", "done"}
        /\ diag # <<>> /\ diag[1] = "read"
        /\ exitPath = "read"

\* C11 as stated: in every run at most one diagnostic line is written and
\* exit is called at most once, also when the restoring tcsetattr fails in
\* the exit handler.
C11_Claim ==
  /\ Len(diag) <= 1
  /\ exitCalls <= 1

\* C12 as stated: the raw attributes are never applied while disableRawMode
\* is not registered, so that after the process has exited the device is
\* never left with the raw attributes in place of the ones it started with.
C12_Original ==
  /\ rawApply # "none" => handlers = <<"disableRawMode">>
  /\ handlers = <<>> => dev = dev0
  /\ (Exited /\ rawApply = "ok") => dev = dev0

\* C12 amended: the raw attributes are never applied, and the device is never
\* changed, while disableRawMode is not registered with atexit; after an
\* exit through exit() the device is left in raw mode exactly when the raw
\* attributes were applied, differ from the baseline, and the restoring
\* tcsetattr failed.
C12_RegisteredBeforeApply ==
  /\ [](rawApply # "none" => handlers = <<"disableRawMode">>)
  /\ [](handlers = <<>> => dev = dev0)
  /\ [][dev' # dev => handlers # <<>>]_vars
  /\ [](Exited =>
          (dev # dev0 <=>
             (rawApply = "ok" /\ restore = "failed" /\ MakeRaw(dev0) # dev0)))
  /\ []((Exited /\ dev # dev0) => dev = MakeRaw(dev0))

C12_Witness ==
  /\ rawApply = "ok" /\ dev # dev0 /\ pc = "read"
  /\ handlers = <<"disableRawMode">>

\* C13: after a failed tcgetattr the process is reporting the error, exiting
\* or gone, with one diagnostic and (once exit is called) status 1; the
\* device is as it was, no attributes were applied (raw or restored),
\* nothing was registered and nothing was read.
C13_QueryFailureLeavesDevice ==
  exitPath = "tcsgetattr" =>
     /\ pc \in {"perror", "flush", "done"}
     /\ pc = "perror" => exitCalls = 0
     /\ pc \in {"flush", "done"} => (status = 1 /\ exitCalls = 1)
     /\ diag = <<"tcsgetattr">>
     /\ dev = dev0
     /\ rawApply = "none" /\ restore = "none" /\ nRestores = 0
     /\ handlers = <<>>
     /\ nReads = 0 /\ nLines = 0

C13_Witness ==
  /\ exitPath = "tcsgetattr" /\ pc = "done" /\ status = 1
  /\ dev = dev0 /\ dev0 # ZeroTermios

\* The session is active: the raw attributes were applied and the
\* restoration has not run yet.
Active == rawApply = "ok" /\ nRestores = 0

\* C14: the session goes uninitialized -> active -> restored and stays
\* there: a run that reached active and exited ran disableRawMode exactly
\* once; enableRawMode is entered once (one registration, the raw apply and
\* the capture are never repeated); and once disableRawMode has run nothing
\* is read, nothing is applied and the process only finishes exiting.
C14_Lifecycle ==
  /\ []((Exited /\ rawApply = "ok") => nRestores = 1)
  /\ [](nRestores <= 1 /\ Len(handlers) <= 1)
  /\ [](nRestores = 1 => pc \in {"perror", "flush", "done"})
  /\ [][rawApply # "none" => rawApply' = rawApply]_vars
  /\ [][pc # "getattr" => pc' # "getattr"]_vars
  /\ [][nRestores >= 1 =>
          (nReads' = nReads /\ dev' = dev /\ nRestores' = nRestores)]_vars

C14_Witness ==
  /\ Exited /\ rawApply = "ok" /\ nRestores = 1 /\ restore = "ok"
  /\ nBytes >= 1 /\ exitPath = "normal"

\* C15 as stated: whenever the loop is about to call read, the device has the
\* raw attributes derived from the baseline, with VMIN = 0 and VTIME = 1.
C15_Claim ==
  pc = "read" =>
     /\ dev = MakeRaw(orig_termios)
     /\ dev.vmin = 0 /\ dev.vtime = 1
     /\ "ICANON" \notin dev.lflag

\* C16: while the session is active the device differs from the baseline
\* exactly as listed: the five input flags, OPOST and the four local flags
\* are clear, the CS8 bits are set, VMIN = 0, VTIME = 1, every other flag
\* and control character is as in the baseline; and the stored baseline is still the configuration
\* the device started with.
C16_RawFrame ==
  Active =>
     /\ dev.iflag = dev0.iflag \ {"BRKINT", "ICRNL", "INPCK", "ISTRIP", "IXON"}
     /\ dev.oflag = dev0.oflag \ {"OPOST"}
     /\ dev.cflag = dev0.cflag \cup {"CSIZE_LO", "CSIZE_HI"}
     /\ dev.lflag = dev0.lflag \ {"ECHO", "ICANON", "IEXTEN", "ISIG"}
     /\ dev.vmin = 0 /\ dev.vtime = 1
     /\ dev.cc = dev0.cc
     /\ orig_termios = dev0

C16_Witness ==
  /\ Active /\ pc = "check"
  /\ "IGNBRK" \in dev.iflag /\ "CREAD" \in dev.cflag
  /\ "CSIZE_LO" \notin dev0.cflag /\ "ISTRIP" \in dev0.iflag
  /\ dev0.vmin = 1 /\ dev0.vtime = 0

\* C17: the baseline is written only by the tcgetattr of enableRawMode, which
\* runs once; from then on orig_termios keeps the configuration the device
\* had at that moment, through deriving, reading, printing, die and
\* restoring, and a successful restoration leaves the device with exactly it.
C17_BaselineImmutable ==
  /\ [][orig_termios' # orig_termios => (pc = "getattr" /\ pc' = "register")]_vars
  /\ [][pc # "getattr" => orig_termios' = orig_termios]_vars
  /\ [](Captured => orig_termios = dev0)
  /\ [](restore = "ok" => dev = dev0)

C17_Witness ==
  /\ Captured /\ Exited /\ restore = "ok" /\ rawApply = "ok"
  /\ orig_termios = dev0 /\ orig_termios # ZeroTermios
  /\ orig_termios # MakeRaw(orig_termios)
  /\ nLines >= 2 /\ exitPath = "read"

\* The number at the head of a printed line: the characters before the
\* first blank or carriage return.
RECURSIVE NumberPart(_)
NumberPart(line) ==
  IF line = <<>> \/ Head(line) \in {32, 13} THEN <<>>
  ELSE <<Head(line)>> \o NumberPart(Tail(line))

\* C18 as stated: for every byte received, 128..255 included, the number in
\* the printed line is the byte's decimal value in 0..255.
C18_Claim ==
  (pc = "check" /\ lastRead = "byte") => NumberPart(lastLine) = ToDecimal(lastByte)

====
